---- MODULE Spec2Model ----
(***************************************************************************)
(* Model of the wagon-wheel component of the batting dashboard             *)
(* (src/components/wagon_wheel.py): the two angle transforms, the three    *)
(* wheel renders and the section that lays them out.                       *)
(*                                                                         *)
(* Numbers.  Angles and magnitudes are fixed-point: one unit is 1/U of a   *)
(* degree (of a length unit for magnitudes), U = 2 * Res, so that 22.5 and *)
(* 83.5 are representable.  Arithmetic on them is exact; IEEE-754 rounding *)
(* of the Python floats is not modelled.  Quotients (average, strike rate, *)
(* percentage, normalized magnitude) are kept as fractions [num, den].     *)
(*                                                                         *)
(* Optional values.  A missing value (None / NaN) is the empty tuple, a    *)
(* present value v is <<v>>.                                               *)
(***************************************************************************)
EXTENDS Integers, Sequences, FiniteSets

VARIABLES
    pc,          \* position of the caller: "idle", "col1", "col2", "col_center", "returned", "raised"
    op,          \* the operation that was invoked ("none" before any call)
    df,          \* the event table argument
    is_rhb,      \* the handedness argument (TRUE = right-handed batter)
    shot_angle,  \* the angle argument of an angle transform
    ret,         \* the value an angle transform returned
    valid_df,    \* render_wagon_wheels_section: the table restricted to rows with a shot_angle
    figs,        \* the figures produced so far, in order
    warnings,    \* the st.warning messages issued so far, in order
    calls,       \* the render operations render_wagon_wheels_section invoked, with their table
    raised       \* the exception that ended the operation ("none" if none)

vars == <<pc, op, df, is_rhb, shot_angle, ret, valid_df, figs, warnings, calls, raised>>

----------------------------------------------------------------------------
\* Bounds of the model.

\* Resolution of the fixed-point grid: U = 2 * Res units per degree.
Res == 1
\* Longest event table that is enumerated exhaustively.
MaxRows == 2

U == 2 * Res
Deg(d) == d * U
Turn == Deg(360)

----------------------------------------------------------------------------
\* Optional values and fractions.

None == <<>>
Some(v) == <<v>>
notna(x) == x # None
Val(x) == x[1]

Frac(n, d) == [num |-> n, den |-> d]
FracEq(a, b) == a.num * b.den = b.num * a.den

----------------------------------------------------------------------------
\* The angle transforms.

get_adjusted_angle_mirrored(a, rhb) ==
    IF a = None THEN None
    ELSE IF rhb THEN Some((Deg(90) - Val(a)) % Turn)
    ELSE Some((Deg(90) + Val(a)) % Turn)

get_adjusted_angle(a, rhb) ==
    IF a = None THEN None
    ELSE Some((Deg(90) - Val(a)) % Turn)

get_scoring_area_display_angle_clockwise(a, rhb) ==
    IF a = None THEN None
    ELSE LET base_angle == (Deg(90) - Val(a)) % Turn
         IN  IF ~rhb THEN Some((base_angle - Deg(90)) % Turn)
             ELSE Some(base_angle)

get_scoring_area_display_angle(a, rhb) ==
    IF a = None THEN None
    ELSE LET base_angle == (Deg(90) - Val(a)) % Turn
         IN  IF ~rhb THEN Some((base_angle + Deg(90)) % Turn)
             ELSE Some(base_angle)

----------------------------------------------------------------------------
\* Event tables (pandas DataFrames).
\*
\* A table is [null, columns, rows]: null is TRUE for Python's None, columns is
\* the set of optional columns it has (runs_scored is always there), rows is the
\* sequence of its rows.  A row holds every field; the field of a column the
\* table lacks is None and is never read.

NoTable == [null |-> TRUE, columns |-> {}, rows |-> <<>>]
Table(c, rs) == [null |-> FALSE, columns |-> c, rows |-> rs]

\* row.get(col): None when the table has no such column.
Get(d, row, col) == IF col \in d.columns THEN row[col] ELSE None

\* The index of d; a boolean mask (a column comparison) is a function over it.
Rows(d) == 1..Len(d.rows)

RECURSIVE Masked(_, _)
\* The rows whose mask entry is TRUE, in order.
Masked(rows, mask) ==
    IF rows = <<>> THEN <<>>
    ELSE (IF Head(mask) THEN <<Head(rows)>> ELSE <<>>) \o Masked(Tail(rows), Tail(mask))

\* df[mask]
Filter(d, mask) == Table(d.columns, Masked(d.rows, mask))

\* The index of df[mask].
IndexWhere(d, mask) == {k \in Rows(d) : mask[k]}

RECURSIVE SumRuns(_, _)
\* df.loc[idx, 'runs_scored'].sum()
SumRuns(d, idx) ==
    IF idx = {} THEN 0
    ELSE LET k == CHOOSE j \in idx : TRUE
         IN  d.rows[k].runs_scored + SumRuns(d, idx \ {k})

\* An operation either returns a figure or raises.
Return(f) == [exc |-> "none", fig |-> <<f>>]
Raise(e) == [exc |-> e, fig |-> <<>>]

\* The boundary circle every wheel draws at r = 1.
boundary_circle == [r |-> Frac(1, 1), linewidth |-> 2]

----------------------------------------------------------------------------
\* render_boundaries_wheel

\* One radial line per row of frame that has a shot_angle, from the centre to the boundary.
boundary_lines(d, frame, rhb, color) ==
    LET drawn == SelectSeq(frame.rows, LAMBDA row : notna(Get(d, row, "shot_angle")))
    IN  [k \in 1..Len(drawn) |->
            [angle_deg |-> Val(get_adjusted_angle(drawn[k].shot_angle, rhb)),
             r0 |-> 0, r1 |-> Frac(1, 1), color |-> color]]

render_boundaries_wheel(d, rhb) ==
    LET fours_df == Filter(d, [k \in Rows(d) |-> d.rows[k].runs_scored = 4])
        sixes_df == Filter(d, [k \in Rows(d) |-> d.rows[k].runs_scored = 6])
    IN  Return([wheel |-> "boundaries",
                circle |-> boundary_circle,
                lines |-> boundary_lines(d, fours_df, rhb, "#2196F3")
                          \o boundary_lines(d, sixes_df, rhb, "#f44336"),
                legend |-> [fours |-> Len(fours_df.rows), sixes |-> Len(sixes_df.rows)]])

----------------------------------------------------------------------------
\* render_caught_out_wheel

max_magnitude == 167

normalized_mag_unclamped(magnitude) ==
    Frac(magnitude, max_magnitude * U)

\* The radius a caught-out line ends at; magnitude is in units of 1/U.
normalized_mag(magnitude) ==
    IF magnitude >= max_magnitude * U THEN Frac(1, 1)
    ELSE Frac(magnitude, max_magnitude * U)

CaughtTypes == {Some("Caught"), Some("CaughtSub"), Some("Caught Out")}

render_caught_out_wheel(d, rhb) ==
    IF "dismissalType" \notin d.columns THEN Raise("KeyError")
    ELSE
    LET caught_df == Filter(d, [k \in Rows(d) |-> d.rows[k].dismissalType \in CaughtTypes])
        drawn == SelectSeq(caught_df.rows,
                   LAMBDA row : /\ notna(Get(d, row, "shot_angle"))
                                /\ notna(Get(d, row, "shot_magnitude")))
    IN  Return([wheel |-> "caught_out",
                circle |-> boundary_circle,
                lines |-> [k \in 1..Len(drawn) |->
                            [angle_deg |-> Val(get_adjusted_angle(drawn[k].shot_angle, rhb)),
                             r0 |-> 0,
                             r1 |-> normalized_mag(Val(drawn[k].shot_magnitude)),
                             color |-> "#d32f2f"]],
                title |-> Len(caught_df.rows)])

----------------------------------------------------------------------------
\* render_scoring_areas_wheel

\* The 8 sectors, in degrees of the cricket (domain) frame.
sector_ranges ==
    << <<0, 45>>, <<45, 90>>, <<90, 135>>, <<135, 180>>,
       <<180, 225>>, <<225, 270>>, <<270, 315>>, <<315, 360>> >>

in_sector_closed(a, start_angle, end_angle) ==
    /\ notna(a)
    /\ Val(a) >= Deg(start_angle)
    /\ Val(a) <= Deg(end_angle)

in_sector_half_open(a, start_angle, end_angle) ==
    /\ notna(a)
    /\ Val(a) >= Deg(start_angle)
    /\ Val(a) < Deg(end_angle)

\* The row filter of one sector; a comparison with a missing angle (NaN) is false.
in_sector(a, start_angle, end_angle) ==
    IF end_angle = 360
    THEN notna(a) /\ Val(a) >= Deg(start_angle) /\ Val(a) <= Deg(360)
    ELSE notna(a) /\ Val(a) >= Deg(start_angle) /\ Val(a) < Deg(end_angle)

\* The index of sector_df, the rows of d the filter of sector i selects.
sector_index(d, i) ==
    IndexWhere(d, [k \in Rows(d) |->
                     in_sector(d.rows[k].shot_angle, sector_ranges[i][1], sector_ranges[i][2])])

total_runs_in_sectors(d) ==
    SumRuns(d, UNION {sector_index(d, i) : i \in 1..Len(sector_ranges)})

\* df['runs_scored'].sum() over the whole table.
total_runs_all(d) ==
    SumRuns(d, 1..Len(d.rows))

sector_outs_dismissal_first(d, idx) ==
    IF idx = {} THEN 0
    ELSE IF "dismissalType" \in d.columns
    THEN Cardinality({k \in idx : notna(d.rows[k].dismissalType)})
         - Cardinality({k \in idx : d.rows[k].dismissalType = Some("")})
    ELSE IF "is_out" \in d.columns
    THEN Cardinality({k \in idx : d.rows[k].is_out = Some(TRUE)})
    ELSE 0

\* The outs of the rows idx of d (a sector_df).
sector_outs(d, idx) ==
    IF idx = {} THEN 0
    ELSE IF "is_out" \in d.columns
    THEN Cardinality({k \in idx : d.rows[k].is_out = Some(TRUE)})
    ELSE IF "dismissalType" \in d.columns
    THEN Cardinality({k \in idx : notna(d.rows[k].dismissalType)})
         - Cardinality({k \in idx : d.rows[k].dismissalType = Some("")})
    ELSE 0

\* The statistics of sector i; total is total_runs_all of the table.
sector_stats(d, i, total) ==
    LET sector_df == sector_index(d, i)
        balls == Cardinality(sector_df)
        runs == IF balls > 0 THEN SumRuns(d, sector_df) ELSE 0
        outs == sector_outs(d, sector_df)
    IN  [sector_df |-> sector_df,
         balls |-> balls,
         runs |-> runs,
         outs |-> outs,
         average |-> IF outs > 0 THEN Some(Frac(runs, outs)) ELSE None,
         sr |-> IF balls > 0 THEN Frac(runs * 100, balls) ELSE Frac(0, 1),
         pct_runs |-> IF total > 0 THEN Frac(runs * 100, total) ELSE Frac(0, 1)]

\* The two boundary lines of sector i, at its start and its end (360 drawn as 0).
sector_lines(i, rhb) ==
    LET line(angle) ==
            LET draw_angle == IF angle < 360 THEN angle ELSE 0
            IN  [angle_deg |-> Val(get_scoring_area_display_angle(Some(Deg(draw_angle)), rhb)),
                 r0 |-> 0, r1 |-> Frac(1, 1), color |-> "#666"]
    IN  << line(sector_ranges[i][1]), line(sector_ranges[i][2]) >>

\* The label of sector i, at the middle of the sector and 55% of the radius; its
\* text shows the statistics s of the sector ("-" for an undefined average).
\* mid_angle = (start + end) / 2 degrees = (start + end) * Res units.
sector_label(i, s, rhb) ==
    LET mid_angle == (sector_ranges[i][1] + sector_ranges[i][2]) * Res
    IN  [angle_deg |-> Val(get_scoring_area_display_angle(Some(mid_angle), rhb)),
         text_r |-> Frac(55, 100),
         balls |-> s.balls,
         runs |-> s.runs,
         avg_placeholder |-> (s.average = None)]

RECURSIVE Concat(_)
Concat(ss) == IF ss = <<>> THEN <<>> ELSE Head(ss) \o Concat(Tail(ss))

\* All sector statistics of the table.
all_sector_stats(d) ==
    LET total == total_runs_all(d)
    IN  [i \in 1..Len(sector_ranges) |-> sector_stats(d, i, total)]

scoring_figure(d, rhb) ==
    LET stats == all_sector_stats(d)
    IN  [wheel |-> "scoring_areas",
         circle |-> boundary_circle,
         stats |-> stats,
         lines |-> Concat([i \in 1..Len(sector_ranges) |-> sector_lines(i, rhb)]),
         labels |-> [i \in 1..Len(sector_ranges) |-> sector_label(i, stats[i], rhb)]]

render_scoring_areas_wheel_blank_when_empty(d, rhb) ==
    IF "shot_angle" \notin d.columns THEN Raise("KeyError")
    ELSE IF Len(d.rows) = 0
    THEN Return([wheel |-> "scoring_areas",
                 circle |-> boundary_circle,
                 stats |-> all_sector_stats(d),
                 lines |-> <<>>,
                 labels |-> <<>>])
    ELSE Return(scoring_figure(d, rhb))

render_scoring_areas_wheel(d, rhb) ==
    IF "shot_angle" \notin d.columns THEN Raise("KeyError")
    ELSE Return(scoring_figure(d, rhb))

----------------------------------------------------------------------------
\* Inputs.

\* The angles an angle transform is called with: absent, or any grid point of [0, 360].
AngleInputs == {None} \cup {Some(a) : a \in 0..Turn}

\* The rows a table with columns c can hold, its fields drawn from A, R, M, D, O.
RowsOf(c, A, R, M, D, O) ==
    [shot_angle     : IF "shot_angle" \in c THEN A ELSE {None},
     runs_scored    : R,
     shot_magnitude : IF "shot_magnitude" \in c THEN M ELSE {None},
     dismissalType  : IF "dismissalType" \in c THEN D ELSE {None},
     is_out         : IF "is_out" \in c THEN O ELSE {None}]

\* Every table of at most n rows over the column sets cs.
TablesOver(cs, A, R, M, D, O, n) ==
    UNION { { Table(c, rs) : rs \in UNION { [1..k -> RowsOf(c, A, R, M, D, O)] : k \in 0..n } }
            : c \in cs }

\* Largest shot_magnitude (in length units) the caught-out wheel is given.
MaxMagnitude == 200

\* 22.5 degrees * k.
Half45(k) == 45 * Res * k

BoundariesTables ==
    TablesOver({{"shot_angle"}, {}},
               {None, Some(0), Some(Deg(90)), Some(Deg(180))}, {0, 4, 6},
               {None}, {None}, {None}, MaxRows)

CaughtTables ==
    TablesOver(SUBSET {"shot_angle", "shot_magnitude", "dismissalType"},
               {None, Some(Deg(45))}, {0},
               {None, Some(max_magnitude * Res), Some(Deg(MaxMagnitude))},
               {None, Some("Caught"), Some("Caught Out"), Some("Bowled")}, {None}, MaxRows)
    \cup
    { Table({"shot_angle", "shot_magnitude", "dismissalType"},
            << [shot_angle |-> Some(Deg(45)), runs_scored |-> 0, shot_magnitude |-> Some(m),
                dismissalType |-> Some("CaughtSub"), is_out |-> None] >>)
      : m \in 0..Deg(MaxMagnitude) }

\* One event at the midpoint of every sector, 4 runs each, nobody out.
MidpointTable ==
    Table({"shot_angle", "is_out"},
          [i \in 1..Len(sector_ranges) |->
             [shot_angle |-> Some(Half45(2 * i - 1)), runs_scored |-> 4,
              shot_magnitude |-> None, dismissalType |-> None, is_out |-> Some(FALSE)]])

\* A sector with 3 balls, 10 runs and one out.
OutsAverageTable ==
    Table({"shot_angle", "is_out"},
          [i \in 1..3 |->
             [shot_angle |-> Some(Deg(100)), runs_scored |-> <<4, 6, 0>>[i],
              shot_magnitude |-> None, dismissalType |-> None, is_out |-> Some(i = 3)]])

ScoringTables ==
    \* the angle and the runs vary: binning and sums
    TablesOver({{"shot_angle", "is_out"}},
               {None, Some(Deg(45)), Some(Half45(15)), Some(Turn)}, {0, 4},
               {None}, {None}, {Some(TRUE), Some(FALSE)}, MaxRows)
    \cup
    \* the columns and the dismissal fields vary: the outs
    TablesOver({{"shot_angle", "is_out", "dismissalType"}, {"shot_angle", "is_out"},
                {"shot_angle", "dismissalType"}, {"shot_angle"}, {}},
               {None, Some(Deg(45))}, {4},
               {None}, {None, Some(""), Some("Caught")}, {Some(TRUE), Some(FALSE)}, MaxRows)
    \cup
    \* one event at any angle of the grid
    { Table({"shot_angle"},
            << [shot_angle |-> Some(a), runs_scored |-> 4, shot_magnitude |-> None,
                dismissalType |-> None, is_out |-> None] >>)
      : a \in 0..Turn }
    \cup {MidpointTable, OutsAverageTable}

SectionTables ==
    {NoTable}
    \cup
    TablesOver({{"shot_angle", "shot_magnitude", "dismissalType"}, {"shot_angle"}, {}},
               {None, Some(Deg(45))}, {4},
               {Some(max_magnitude * Res)}, {None, Some("Caught")}, {None}, MaxRows)

NoFigs == <<>>

----------------------------------------------------------------------------
Init ==
    /\ pc = "idle"
    /\ op = "none"
    /\ df = NoTable
    /\ is_rhb = TRUE
    /\ shot_angle = None
    /\ ret = None
    /\ valid_df = NoTable
    /\ figs = NoFigs
    /\ warnings = <<>>
    /\ calls = <<>>
    /\ raised = "none"

Call_get_adjusted_angle ==
    /\ pc = "idle"
    /\ \E a \in AngleInputs, h \in BOOLEAN :
          /\ op' = "get_adjusted_angle"
          /\ shot_angle' = a
          /\ is_rhb' = h
          /\ ret' = get_adjusted_angle(a, h)
    /\ pc' = "returned"
    /\ UNCHANGED <<df, valid_df, figs, warnings, calls, raised>>

Call_get_scoring_area_display_angle ==
    /\ pc = "idle"
    /\ \E a \in AngleInputs, h \in BOOLEAN :
          /\ op' = "get_scoring_area_display_angle"
          /\ shot_angle' = a
          /\ is_rhb' = h
          /\ ret' = get_scoring_area_display_angle(a, h)
    /\ pc' = "returned"
    /\ UNCHANGED <<df, valid_df, figs, warnings, calls, raised>>

\* A direct call of one render operation: the figure is kept, or the exception.
Invoke(name, d, h, outcome) ==
    /\ op' = name
    /\ df' = d
    /\ is_rhb' = h
    /\ figs' = figs \o outcome.fig
    /\ raised' = outcome.exc
    /\ pc' = IF outcome.exc = "none" THEN "returned" ELSE "raised"
    /\ UNCHANGED <<shot_angle, ret, valid_df, warnings, calls>>

Call_render_boundaries_wheel ==
    /\ pc = "idle"
    /\ \E d \in BoundariesTables, h \in BOOLEAN :
          Invoke("render_boundaries_wheel", d, h, render_boundaries_wheel(d, h))

Call_render_caught_out_wheel ==
    /\ pc = "idle"
    /\ \E d \in CaughtTables, h \in BOOLEAN :
          Invoke("render_caught_out_wheel", d, h, render_caught_out_wheel(d, h))

Call_render_scoring_areas_wheel ==
    /\ pc = "idle"
    /\ \E d \in ScoringTables, h \in BOOLEAN :
          Invoke("render_scoring_areas_wheel", d, h, render_scoring_areas_wheel(d, h))

\* render_wagon_wheels_section, up to the first column: the input checks.
Section_check ==
    /\ pc = "idle"
    /\ \E d \in SectionTables, h \in BOOLEAN :
          /\ op' = "render_wagon_wheels_section"
          /\ df' = d
          /\ is_rhb' = h
          /\ IF d.null \/ Len(d.rows) = 0
             THEN /\ warnings' = Append(warnings, "No data available for wagon wheel visualization.")
                  /\ valid_df' = valid_df
                  /\ pc' = "returned"
             ELSE IF "shot_angle" \notin d.columns
             THEN /\ warnings' = Append(warnings, "Shot angle data not available for wagon wheel visualization.")
                  /\ valid_df' = valid_df
                  /\ pc' = "returned"
             ELSE LET valid == Filter(d, [k \in Rows(d) |-> notna(d.rows[k].shot_angle)])
                  IN  /\ valid_df' = valid
                      /\ IF Len(valid.rows) = 0
                         THEN /\ warnings' = Append(warnings, "No valid shot angle data for visualization.")
                              /\ pc' = "returned"
                         ELSE /\ warnings' = warnings
                              /\ pc' = "col1"
    /\ UNCHANGED <<shot_angle, ret, figs, calls, raised>>

\* One column of the section: call the render on valid_df, show its figure.
Section_render(name, outcome, next) ==
    /\ calls' = Append(calls, [op |-> name, df |-> valid_df])
    /\ figs' = figs \o outcome.fig
    /\ raised' = outcome.exc
    /\ pc' = IF outcome.exc = "none" THEN next ELSE "raised"
    /\ UNCHANGED <<op, df, is_rhb, shot_angle, ret, valid_df, warnings>>

Section_boundaries ==
    /\ pc = "col1"
    /\ Section_render("render_boundaries_wheel", render_boundaries_wheel(valid_df, is_rhb), "col2")

Section_caught_out ==
    /\ pc = "col2"
    /\ Section_render("render_caught_out_wheel", render_caught_out_wheel(valid_df, is_rhb), "col_center")

Section_scoring_areas ==
    /\ pc = "col_center"
    /\ Section_render("render_scoring_areas_wheel", render_scoring_areas_wheel(valid_df, is_rhb), "returned")

Next ==
    \/ Call_get_adjusted_angle
    \/ Call_get_scoring_area_display_angle
    \/ Call_render_boundaries_wheel
    \/ Call_render_caught_out_wheel
    \/ Call_render_scoring_areas_wheel
    \/ Section_check
    \/ Section_boundaries
    \/ Section_caught_out
    \/ Section_scoring_areas

Spec == Init /\ [][Next]_vars

----------------------------------------------------------------------------
\* Properties.

Returned(name) == op = name /\ pc = "returned"
Ended(name) == op = name /\ pc \in {"returned", "raised"}

\* The figure a direct call of a render returned.
TheFig == figs[1]

\* x mod 360 degrees, by its characterisation: the value of [0, 360) that differs
\* from x by a whole number of turns.
IsMod360(r, x) == r \in 0..(Turn - 1) /\ \E k \in -2..2 : r = x + k * Turn

RECURSIVE SeqSum(_)
SeqSum(s) == IF s = <<>> THEN 0 ELSE Head(s) + SeqSum(Tail(s))

\* The sector (1..8) an angle of [0, 360] belongs to: 45-degree steps, 360 in the last.
SectorOf(a) == IF a = Turn THEN 8 ELSE (a \div Deg(45)) + 1

\* The rows of the table whose angle is present, within [0, 360] and in sector i.
EventsIn(d, i) ==
    {k \in 1..Len(d.rows) :
        /\ "shot_angle" \in d.columns
        /\ notna(d.rows[k].shot_angle)
        /\ Val(d.rows[k].shot_angle) \in 0..Turn
        /\ SectorOf(Val(d.rows[k].shot_angle)) = i}

\* The runs of the rows idx of the table, and of the whole table.
RunsOf(d, idx) == SeqSum([k \in 1..Len(d.rows) |-> IF k \in idx THEN d.rows[k].runs_scored ELSE 0])
TotalRuns(d) == RunsOf(d, 1..Len(d.rows))

\* C1: for every shot angle a in [0,360) and both handedness values,
\* get_adjusted_angle returns (90 - a) mod 360: a value of [0,360) that is the
\* same for a right- and a left-handed batter.
C1_AdjustedAngle ==
    (Returned("get_adjusted_angle") /\ notna(shot_angle) /\ Val(shot_angle) < Turn)
    => /\ notna(ret)
       /\ IsMod360(Val(ret), Deg(90) - Val(shot_angle))
       /\ ret = get_adjusted_angle(shot_angle, ~is_rhb)

C1_Witness ==
    /\ Returned("get_adjusted_angle")
    /\ ~is_rhb
    /\ shot_angle = Some(Deg(90) + 1)
    /\ ret = Some(Turn - 1)

\* C2: for every shot angle a in [0,360), get_scoring_area_display_angle returns
\* base = (90 - a) mod 360 for a right-handed batter and (base + 90) mod 360 for a
\* left-handed one: the Left result is the Right result rotated by 90 degrees
\* (a = 0 gives 90 for Right and 180 for Left).
C2_SectorDisplayAngle ==
    (Returned("get_scoring_area_display_angle") /\ notna(shot_angle) /\ Val(shot_angle) < Turn)
    => /\ notna(ret)
       /\ is_rhb => IsMod360(Val(ret), Deg(90) - Val(shot_angle))
       /\ ~is_rhb => /\ IsMod360(Val(ret), Deg(90) - Val(shot_angle) + Deg(90))
                     /\ IsMod360(Val(ret),
                                 Val(get_scoring_area_display_angle(shot_angle, TRUE)) + Deg(90))
       /\ (shot_angle = Some(0)) => ret = Some(IF is_rhb THEN Deg(90) ELSE Deg(180))

C2_Witness ==
    /\ Returned("get_scoring_area_display_angle")
    /\ ~is_rhb
    /\ shot_angle = Some(0)
    /\ ret = Some(Deg(180))

\* C3: every event with a shot angle in [0,360] is selected by exactly one of the
\* 8 sector filters of render_scoring_areas_wheel: the sectors are half-open
\* 45-degree ranges, except that the last one also holds 360.
C3_SectorPartition ==
    Returned("render_scoring_areas_wheel")
    => \A k \in 1..Len(df.rows) :
          LET a == df.rows[k].shot_angle
              holding == {i \in 1..8 : k \in TheFig.stats[i].sector_df}
          IN  (notna(a) /\ Val(a) \in 0..Turn) => holding = {SectorOf(Val(a))}

C3_Witness ==
    /\ Returned("render_scoring_areas_wheel")
    /\ Len(df.rows) = 1
    /\ df.rows[1].shot_angle = Some(Turn)
    /\ TheFig.stats[8].sector_df = {1}
    /\ \A i \in 1..7 : TheFig.stats[i].sector_df = {}

\* C4: for every event table and sector, render_scoring_areas_wheel computes
\* balls = number of events in the sector, runs = sum of their runs, strike rate
\* = runs / balls * 100 (0 without balls), average = runs / outs (undefined
\* without outs, never a division by zero) and percent of runs = sector runs /
\* runs of the FULL table * 100 (0 when that total is 0); 8 events at the sector
\* midpoints with 4 runs each and no outs give 1 ball, 4 runs, no average, strike
\* rate 400 and 12.5 percent in every sector.
C4_SectorStats ==
    Returned("render_scoring_areas_wheel")
    => /\ \A i \in 1..8 :
             LET s == TheFig.stats[i]
                 total == TotalRuns(df)
             IN  /\ s.balls = Cardinality(EventsIn(df, i))
                 /\ s.runs = RunsOf(df, EventsIn(df, i))
                 /\ s.sr.den # 0 /\ s.pct_runs.den # 0
                 /\ IF s.balls = 0 THEN s.sr.num = 0
                    ELSE FracEq(s.sr, Frac(s.runs * 100, s.balls))
                 /\ IF s.outs = 0 THEN s.average = None
                    ELSE /\ notna(s.average)
                         /\ Val(s.average).den # 0
                         /\ FracEq(Val(s.average), Frac(s.runs, s.outs))
                 /\ IF total = 0 THEN s.pct_runs.num = 0
                    ELSE FracEq(s.pct_runs, Frac(s.runs * 100, total))
       /\ df = MidpointTable
          => \A i \in 1..8 :
                LET s == TheFig.stats[i]
                IN  /\ s.balls = 1 /\ s.runs = 4 /\ s.average = None
                    /\ FracEq(s.sr, Frac(400, 1))
                    /\ FracEq(s.pct_runs, Frac(125, 10))

C4_Witness ==
    /\ Returned("render_scoring_areas_wheel")
    /\ df = MidpointTable
    /\ \A i \in 1..8 : TheFig.stats[i].balls = 1 /\ FracEq(TheFig.stats[i].pct_runs, Frac(25, 2))

\* C5: the outs of a sector follow an ordered policy: with an is_out column,
\* the number of sector events whose is_out is true, whatever dismissalType
\* says; only without it, the number of sector events whose dismissalType is
\* present and not the empty string; with neither column, 0.
C5_OutsPolicy ==
    Returned("render_scoring_areas_wheel")
    => \A i \in 1..8 :
          LET s == TheFig.stats[i]
              flagged == {k \in s.sector_df : df.rows[k].is_out = Some(TRUE)}
              typed == {k \in s.sector_df : df.rows[k].dismissalType \notin {None, Some("")}}
          IN  /\ "is_out" \in df.columns => s.outs = Cardinality(flagged)
              /\ ("is_out" \notin df.columns /\ "dismissalType" \in df.columns)
                 => s.outs = Cardinality(typed)
              /\ ("is_out" \notin df.columns /\ "dismissalType" \notin df.columns)
                 => s.outs = 0

C5_Witness ==
    /\ Returned("render_scoring_areas_wheel")
    /\ {"is_out", "dismissalType"} \subseteq df.columns
    /\ Len(df.rows) = 2
    /\ df.rows[1].shot_angle = Some(Deg(45)) /\ df.rows[2].shot_angle = Some(Deg(45))
    /\ df.rows[1].is_out = Some(FALSE) /\ df.rows[1].dismissalType = Some("Caught")
    /\ df.rows[2].is_out = Some(TRUE) /\ df.rows[2].dismissalType = None
    /\ TheFig.stats[2].outs = 1

AllZero(s) ==
    /\ s.balls = 0 /\ s.runs = 0 /\ s.outs = 0
    /\ s.average = None /\ s.sr.num = 0 /\ s.pct_runs.num = 0

EmptyInput == ~df.null /\ df.rows = <<>> /\ "shot_angle" \in df.columns

\* C6, as stated: on an empty event set the Scoring Areas render does not fail,
\* draws no sector boundary lines and no sector labels, and the stats of all 8
\* sectors are all-zero with a placeholder average.
C6_Original ==
    (Ended("render_scoring_areas_wheel") /\ EmptyInput)
    => /\ raised = "none"
       /\ Len(figs) = 1
       /\ TheFig.lines = <<>>
       /\ TheFig.labels = <<>>
       /\ \A i \in 1..8 : AllZero(TheFig.stats[i])

\* C6, amended: on an empty event set (that has a shot_angle column)
\* render_scoring_areas_wheel does not fail and the stats of all 8 sectors are
\* all-zero with a placeholder average, but it still draws the 16 sector
\* boundary lines and the 8 sector labels, which show the zero stats; only
\* render_wagon_wheels_section draws nothing for an empty table: it warns and
\* returns without calling a render.
C6_EmptyInput ==
    /\ (Ended("render_scoring_areas_wheel") /\ EmptyInput)
       => /\ pc = "returned" /\ raised = "none"
          /\ Len(figs) = 1
          /\ Len(TheFig.lines) = 16
          /\ Len(TheFig.labels) = 8
          /\ \A i \in 1..8 :
                /\ AllZero(TheFig.stats[i])
                /\ TheFig.labels[i].balls = 0 /\ TheFig.labels[i].runs = 0
                /\ TheFig.labels[i].avg_placeholder
    /\ (Ended("render_wagon_wheels_section") /\ ~df.null /\ df.rows = <<>>)
       => /\ pc = "returned" /\ raised = "none"
          /\ figs = <<>> /\ calls = <<>>
          /\ Len(warnings) = 1

C6_Witness ==
    /\ Returned("render_scoring_areas_wheel")
    /\ EmptyInput
    /\ Len(TheFig.lines) = 16
    /\ Len(TheFig.labels) = 8
    /\ TheFig.labels[1].avg_placeholder

RenderOps == {"render_boundaries_wheel", "render_caught_out_wheel", "render_scoring_areas_wheel"}

\* C7: for any event table that has a shot_angle column, whichever of the
\* optional columns shot_magnitude, dismissalType and is_out are absent, each of
\* the three render operations returns a figure and never raises.
C7_NeverRaises ==
    (op \in RenderOps /\ pc \in {"returned", "raised"} /\ "shot_angle" \in df.columns)
    => /\ raised = "none"
       /\ pc = "returned"
       /\ Len(figs) = 1

Min(a, b) == IF a <= b THEN a ELSE b

\* C8: for every caught dismissal with a shot angle and a non-negative shot
\* magnitude m, the line render_caught_out_wheel draws ends at min(m, 167) / 167:
\* 1 for every m >= 167 (167 included), m / 167 below, always within [0, 1].
C8_NormalizedMagnitude ==
    Returned("render_caught_out_wheel")
    => LET caught == SelectSeq(df.rows,
                       LAMBDA row : /\ row.dismissalType \in CaughtTypes
                                    /\ notna(row.shot_angle)
                                    /\ notna(row.shot_magnitude))
       IN  /\ Len(TheFig.lines) = Len(caught)
           /\ \A k \in 1..Len(caught) :
                 LET m == Val(caught[k].shot_magnitude)
                     r == TheFig.lines[k].r1
                 IN  /\ r.den > 0
                     /\ FracEq(r, Frac(Min(m, 167 * U), 167 * U))
                     /\ m >= 167 * U => r.num = r.den
                     /\ m < 167 * U => r.num * 167 * U = m * r.den
                     /\ 0 <= r.num /\ r.num <= r.den

C8_Witness ==
    /\ Returned("render_caught_out_wheel")
    /\ Len(df.rows) = 1
    /\ df.rows[1].shot_magnitude = Some(Deg(200))
    /\ Len(TheFig.lines) = 1
    /\ FracEq(TheFig.lines[1].r1, Frac(1, 1))

\* The input checks of the section pass: the table is there, not empty, has a
\* shot_angle column and a row whose shot_angle is present.
ChecksPass(d) ==
    /\ ~d.null
    /\ "shot_angle" \in d.columns
    /\ \E k \in 1..Len(d.rows) : notna(d.rows[k].shot_angle)

\* C9: when render_wagon_wheels_section is over, either its input checks failed
\* and it issued exactly one warning and called no render, or they passed and it
\* issued no warning and called the Boundaries, Caught-Out and Scoring-Areas
\* renders in that order, each on the rows whose shot_angle is present; a render
\* is never given an empty table or a row without a shot_angle.
C9_SectionOrder ==
    /\ op = "render_wagon_wheels_section"
       => \A c \in 1..Len(calls) :
             /\ calls[c].df.rows # <<>>
             /\ \A k \in 1..Len(calls[c].df.rows) : notna(calls[c].df.rows[k].shot_angle)
             /\ calls[c].df = Table(df.columns, SelectSeq(df.rows, LAMBDA row : notna(row.shot_angle)))
    /\ Ended("render_wagon_wheels_section")
       => IF ChecksPass(df)
          THEN /\ warnings = <<>>
               /\ [c \in 1..Len(calls) |-> calls[c].op]
                  = <<"render_boundaries_wheel", "render_caught_out_wheel",
                      "render_scoring_areas_wheel">>
          ELSE /\ Len(warnings) = 1
               /\ calls = <<>>

\* C10: if every event of the table has a shot angle in [0,360], the 8 ball
\* counts sum to the number of events and the 8 run sums to the total runs of
\* the table, so that the 8 percentages sum to exactly 100 when the total is
\* positive: no event is dropped or counted twice.
C10_Conservation ==
    (/\ Returned("render_scoring_areas_wheel")
     /\ \A k \in 1..Len(df.rows) :
           notna(df.rows[k].shot_angle) /\ Val(df.rows[k].shot_angle) \in 0..Turn)
    => LET total == TotalRuns(df)
           st == TheFig.stats
       IN  /\ SeqSum([i \in 1..8 |-> st[i].balls]) = Len(df.rows)
           /\ SeqSum([i \in 1..8 |-> st[i].runs]) = total
           /\ total > 0
              => /\ \A i \in 1..8 : (st[i].pct_runs.num * total) % st[i].pct_runs.den = 0
                 /\ SeqSum([i \in 1..8 |-> (st[i].pct_runs.num * total) \div st[i].pct_runs.den])
                    = 100 * total

C10_Witness ==
    /\ Returned("render_scoring_areas_wheel")
    /\ Len(df.rows) = 2
    /\ df.rows[1].shot_angle = Some(Deg(45)) /\ df.rows[1].runs_scored = 4
    /\ df.rows[2].shot_angle = Some(Turn) /\ df.rows[2].runs_scored = 4
    /\ TheFig.stats[2].balls = 1 /\ TheFig.stats[8].balls = 1
    /\ FracEq(TheFig.stats[2].pct_runs, Frac(50, 1))

====
